---- MODULE Spec2Model ----
(***************************************************************************)
(* Board Game Search: the filter store (redux/filters.ts), the client      *)
(* search call (lib/api.ts), the /api/search handler (pages/api/search.ts) *)
(* and the infinite-scroll pager of the home page (pages/index.tsx).       *)
(*                                                                         *)
(* JavaScript strings are sequences of one-character strings, so that      *)
(* formatting and parsing are computed, character by character.            *)
(***************************************************************************)
EXTENDS Integers, Sequences, FiniteSets, TLC

VARIABLES
    \* redux store, slice "filters", and the router's query string
    selected, loaded, url,
    \* HomePage component state and its search requests in flight
    games, searchAfterKey, moreResults, pending,
    \* history: the FilterSet of the request whose page gave searchAfterKey
    cursorOf,
    \* one /api/search request and the body the handler compiles for it
    req, body, res,
    \* a hit's sort tuple on its way through search() and the handler
    hitSort, tokens, search_after,
    \* a client fetching the pages of one FilterSet in sequence
    pageFilters, pageCursor, fetched, pageDone,
    \* /api/tags: the facet pairs the index holds, the handler's walk, its
    \* response, and on the client the fetchTags thunk and the slice "tags"
    tagIndex, walk, tagsRes, tagsThunk, tagStore

storeVars == <<selected, loaded, url>>
pagerVars == <<games, searchAfterKey, moreResults, pending, cursorOf>>
apiVars == <<req, body, res>>
cursorVars == <<hitSort, tokens, search_after>>
pagingVars == <<pageFilters, pageCursor, fetched, pageDone>>
tagsVars == <<tagIndex, walk, tagsRes, tagsThunk, tagStore>>
vars == <<storeVars, pagerVars, apiVars, cursorVars, pagingVars, tagsVars>>

-----------------------------------------------------------------------------
(* JavaScript values: numbers, NaN, strings, undefined.                    *)
(* A number is (-1)^neg * s * 10^e with s not divisible by 10.             *)

Undefined == [k |-> "undefined", neg |-> FALSE, s |-> 0, e |-> 0, str |-> <<>>]
NaN == [k |-> "nan", neg |-> FALSE, s |-> 0, e |-> 0, str |-> <<>>]
StrVal(chars) == [k |-> "str", neg |-> FALSE, s |-> 0, e |-> 0, str |-> chars]

RECURSIVE Norm(_, _, _)
Norm(neg, s, e) ==
    IF s = 0 THEN [k |-> "num", neg |-> FALSE, s |-> 0, e |-> 0, str |-> <<>>]
    ELSE IF s % 10 = 0 THEN Norm(neg, s \div 10, e + 1)
    ELSE [k |-> "num", neg |-> neg, s |-> s, e |-> e, str |-> <<>>]

Int2Num(i) == IF i < 0 THEN Norm(TRUE, -i, 0) ELSE Norm(FALSE, i, 0)

DigitChars == <<"0", "1", "2", "3", "4", "5", "6", "7", "8", "9">>
DigitSet == {DigitChars[i] : i \in 1..10}
DigitVal(c) == (CHOOSE i \in 1..10 : DigitChars[i] = c) - 1

RECURSIVE DigitsOf(_)
DigitsOf(n) ==
    IF n < 10 THEN <<DigitChars[n + 1]>>
    ELSE Append(DigitsOf(n \div 10), DigitChars[(n % 10) + 1])

RECURSIVE ValOf(_)
ValOf(ds) ==
    IF ds = <<>> THEN 0
    ELSE 10 * ValOf(SubSeq(ds, 1, Len(ds) - 1)) + DigitVal(ds[Len(ds)])

Zeros(n) == [i \in 1..n |-> "0"]
Abs(i) == IF i < 0 THEN -i ELSE i

\* Number.prototype.toString (radix 10) and String.prototype.toString
NumberToString(x) ==
    IF x.k = "str" THEN x.str
    ELSE IF x.k = "nan" THEN <<"N", "a", "N">>
    ELSE IF x.s = 0 THEN <<"0">>
    ELSE
        LET ds == DigitsOf(x.s)
            kk == Len(ds)
            n == x.e + kk
            sign == IF x.neg THEN <<"-">> ELSE <<>>
            mag ==
                IF kk <= n /\ n <= 21 THEN ds \o Zeros(n - kk)
                ELSE IF 0 < n /\ n <= 21
                    THEN SubSeq(ds, 1, n) \o <<".">> \o SubSeq(ds, n + 1, kk)
                ELSE IF -6 < n /\ n <= 0
                    THEN <<"0", ".">> \o Zeros(-n) \o ds
                ELSE
                    LET ex == (IF n - 1 < 0 THEN <<"e", "-">> ELSE <<"e", "+">>)
                                \o DigitsOf(Abs(n - 1))
                    IN  IF kk = 1 THEN ds \o ex
                        ELSE <<ds[1], ".">> \o SubSeq(ds, 2, kk) \o ex
        IN  sign \o mag

\* the length of the longest prefix of str made of characters of S
PrefixLen(str, S) ==
    CHOOSE n \in 0..Len(str) :
        /\ \A i \in 1..n : str[i] \in S
        /\ n = Len(str) \/ str[n + 1] \notin S

Drop(str, n) == SubSeq(str, n + 1, Len(str))

\* leading white space is skipped, then an optional sign is read
TrimStart(str) == Drop(str, PrefixLen(str, {" "}))
SignOf(str) == str # <<>> /\ str[1] = "-"
Unsigned(str) == IF str # <<>> /\ str[1] \in {"-", "+"} THEN Drop(str, 1) ELSE str

\* Number.parseInt(string) with no radix: the leading decimal digits
ParseInt(str) ==
    IF PrefixLen(Unsigned(TrimStart(str)), DigitSet) = 0 THEN NaN
    ELSE Norm(SignOf(TrimStart(str)),
              ValOf(SubSeq(Unsigned(TrimStart(str)), 1,
                           PrefixLen(Unsigned(TrimStart(str)), DigitSet))), 0)

\* the exponent part at the head of rest: its value and its length, both 0
\* when rest does not start with e or E, an optional sign and a digit
ScanExponent(rest) ==
    IF rest = <<>> \/ rest[1] \notin {"e", "E"} THEN [val |-> 0, len |-> 0]
    ELSE IF PrefixLen(Unsigned(Drop(rest, 1)), DigitSet) = 0 THEN [val |-> 0, len |-> 0]
    ELSE [val |-> (IF SignOf(Drop(rest, 1)) THEN 0 - 1 ELSE 1)
                    * ValOf(SubSeq(Unsigned(Drop(rest, 1)), 1,
                                   PrefixLen(Unsigned(Drop(rest, 1)), DigitSet))),
          len |-> (Len(rest) - Len(Unsigned(Drop(rest, 1))))
                    + PrefixLen(Unsigned(Drop(rest, 1)), DigitSet)]

\* the decimal literal read so far and what follows its fraction
ScanLiteral(neg, signLen, int, dotLen, frac, rest) ==
    [nan |-> int = <<>> /\ frac = <<>>,
     neg |-> neg,
     digits |-> int \o frac,
     e |-> ScanExponent(rest).val - Len(frac),
     len |-> signLen + Len(int) + dotLen + Len(frac) + ScanExponent(rest).len]

\* the fraction that may follow the integer digits
ScanFraction(neg, signLen, int, rest) ==
    IF rest # <<>> /\ rest[1] = "."
        THEN ScanLiteral(neg, signLen, int, 1,
                         SubSeq(rest, 2, 1 + PrefixLen(Drop(rest, 1), DigitSet)),
                         Drop(rest, 1 + PrefixLen(Drop(rest, 1), DigitSet)))
    ELSE ScanLiteral(neg, signLen, int, 0, <<>>, rest)

\* the longest prefix of t (no leading white space) that is a decimal literal
ScanFloat(t) ==
    ScanFraction(SignOf(t), Len(t) - Len(Unsigned(t)),
                 SubSeq(Unsigned(t), 1, PrefixLen(Unsigned(t), DigitSet)),
                 Drop(Unsigned(t), PrefixLen(Unsigned(t), DigitSet)))

\* the number a scanned literal stands for
ScanValue(f) == IF f.nan THEN NaN ELSE Norm(f.neg, ValOf(f.digits), f.e)

\* Number.parseFloat(string): the longest prefix that is a decimal literal
ParseFloat(str) == ScanValue(ScanFloat(TrimStart(str)))

Reverse(str) == [i \in 1..Len(str) |-> str[Len(str) + 1 - i]]
\* String.prototype.trim
Trim(str) == Reverse(TrimStart(Reverse(TrimStart(str))))

\* Number(t) for a trimmed string scanned as f
NumberOfScan(t, f) ==
    IF t = <<>> THEN Norm(FALSE, 0, 0)
    ELSE IF ~f.nan /\ f.len = Len(t) THEN ScanValue(f)
    ELSE NaN

\* Number(string): the whole trimmed string is a decimal literal, "" is 0
\* (hexadecimal, octal and binary literals are outside the alphabet used)
ToNumber(str) == NumberOfScan(Trim(str), ScanFloat(Trim(str)))

\* Number.isInteger
IsInteger(x) == x.k = "num" /\ x.e >= 0

\* String.prototype.includes
Includes(str, sub) ==
    \E i \in 0..(Len(str) - Len(sub)) : SubSeq(str, i + 1, i + Len(sub)) = sub

-----------------------------------------------------------------------------
(* A repeated query parameter as Next.js hands it to a handler: absent,    *)
(* one string, or an array of strings.                                     *)

NoParam == [t |-> "none", v |-> <<>>]
\* a key with no "=" in the URL, which parse() reads as null
NullParam == [t |-> "null", v |-> <<>>]
StrParam(str) == [t |-> "str", v |-> <<str>>]
ArrParam(arr) == [t |-> "arr", v |-> arr]

\* !params with the empty string taken for a value
FalsyUndefined(params) == params.t = "none"

\* !params: undefined and the empty string are falsy, an array never is
Falsy(params) == params.t = "none" \/ (params.t = "str" /\ params.v[1] = <<>>)

\* typeof params === "string" ? [params] : params
AsArray(params) == params.v

\* what req.query holds for a key the client sent n values of
QueryValue(values) ==
    IF Len(values) = 0 THEN NoParam
    ELSE IF Len(values) = 1 THEN StrParam(values[1])
    ELSE ArrParam(values)

InfinityStr == <<"I", "n", "f", "i", "n", "i", "t", "y">>

\* lib/api.ts search(): searchAfterKey.map((part) => part.toString())
EncodeSearchAfterKey(key) == [i \in 1..Len(key) |-> NumberToString(key[i])]

\* the callback of createSearchAfterClause for a position before the last
DecodeToken(item) ==
    IF Includes(item, InfinityStr) THEN StrVal(item)
    ELSE IF Includes(item, <<".">>) THEN ParseFloat(item)
    ELSE ParseInt(item)

\* createSearchAfterClause with the last position decoded like the others
createSearchAfterClauseAll(params) ==
    IF Falsy(params) THEN [defined |-> FALSE, key |-> <<>>]
    ELSE [defined |-> TRUE,
          key |-> [i \in 1..Len(AsArray(params)) |-> DecodeToken(AsArray(params)[i])]]

\* pages/api/search.ts createSearchAfterClause; <<>> with defined = FALSE
\* is undefined
createSearchAfterClause(params) ==
    IF Falsy(params) THEN [defined |-> FALSE, key |-> <<>>]
    ELSE LET arr == AsArray(params)
         IN  [defined |-> TRUE,
              key |-> [i \in 1..Len(arr) |->
                         IF i # Len(arr) THEN DecodeToken(arr[i])
                         ELSE StrVal(arr[i])]]

-----------------------------------------------------------------------------
(* lib/api.ts, enum Filters: the values a filter field takes.              *)

SortByRelevance == <<"r", "e", "l", "e", "v", "a", "n", "c", "e">>
SortByRank == <<"r", "a", "n", "k">>
SortByRating == <<"r", "a", "t", "i", "n", "g">>
SortByWeight == <<"w", "e", "i", "g", "h", "t">>
FilterAny == <<"a", "n", "y">>
Rating2Plus == <<"2", "p">>
Rating5Plus == <<"5", "p">>
Rating8Plus == <<"8", "p">>
Age0To4 == <<"0", "t", "4">>
Age5To10 == <<"5", "t", "1", "0">>
Age11To17 == <<"1", "1", "t", "1", "7">>
Age18To20 == <<"1", "8", "t", "2", "0">>
Age21Plus == <<"2", "1", "p">>
Weight1to2 == <<"1", "t", "2">>
Weight2to3 == <<"2", "t", "3">>
Weight3to4 == <<"3", "t", "4">>
Weight4to5 == <<"4", "t", "5">>
Playtime0to30 == <<"0", "t", "3", "0">>
Playtime30to60 == <<"3", "0", "t", "6", "0">>
Playtime60to120 == <<"6", "0", "t", "1", "2", "0">>
Playtime120Plus == <<"1", "2", "0", "p">>
Players1 == <<"1">>
Players2 == <<"2">>
Players3 == <<"3">>
Players4 == <<"4">>
Players5Plus == <<"5", "p">>
RankTop100 == <<"t", "1", "0", "0">>
RankTop500 == <<"t", "5", "0", "0">>
RankTop2500 == <<"t", "2", "5", "0", "0">>
RatingCount100Plus == <<"1", "0", "0", "p">>
RatingCount1000Plus == <<"1", "k", "p">>
RatingCount10000Plus == <<"1", "0", "k", "p">>

-----------------------------------------------------------------------------
(* pages/api/search.ts: the bucket tables.  A bucket's predicate is a      *)
(* conjunction of ranges ({range: ...} is a conjunction of one,            *)
(* {bool: {must: [...]}} of several); None marks a bound that is not set.  *)

None == 0 - 1
Gte(field, lo) == [field |-> field, gte |-> lo, lte |-> None]
Lte(field, hi) == [field |-> field, gte |-> None, lte |-> hi]
Between(field, lo, hi) == [field |-> field, gte |-> lo, lte |-> hi]

\* a table is a sequence of <<bucket name, predicate>> in the order of its keys
AGE_RANGES ==
    << <<Age0To4, <<Between("min_age", 1, 4)>> >>,
       <<Age5To10, <<Between("min_age", 5, 10)>> >>,
       <<Age11To17, <<Between("min_age", 11, 17)>> >>,
       <<Age18To20, <<Between("min_age", 18, 20)>> >>,
       <<Age21Plus, <<Gte("min_age", 21)>> >> >>

RANK_RANGES ==
    << <<RankTop2500, <<Lte("rank", 2500)>> >>,
       <<RankTop500, <<Lte("rank", 500)>> >>,
       <<RankTop100, <<Lte("rank", 100)>> >> >>

RATING_RANGES ==
    << <<Rating2Plus, <<Gte("rating", 2)>> >>,
       <<Rating5Plus, <<Gte("rating", 5)>> >>,
       <<Rating8Plus, <<Gte("rating", 8)>> >> >>

RATING_COUNT_RANGES ==
    << <<RatingCount100Plus, <<Gte("num_ratings", 100)>> >>,
       <<RatingCount1000Plus, <<Gte("num_ratings", 1000)>> >>,
       <<RatingCount10000Plus, <<Gte("num_ratings", 10000)>> >> >>

WEIGHT_RANGES ==
    << <<Weight1to2, <<Between("weight", 1, 2)>> >>,
       <<Weight2to3, <<Between("weight", 2, 3)>> >>,
       <<Weight3to4, <<Between("weight", 3, 4)>> >>,
       <<Weight4to5, <<Between("weight", 4, 5)>> >> >>

PLAYTIME_RANGES ==
    << <<Playtime0to30, <<Lte("min_playtime", 30), Gte("max_playtime", 0)>> >>,
       <<Playtime30to60, <<Lte("min_playtime", 60), Gte("max_playtime", 30)>> >>,
       <<Playtime60to120, <<Lte("min_playtime", 120), Gte("max_playtime", 60)>> >>,
       <<Playtime120Plus, <<Gte("max_playtime", 120)>> >> >>

PLAYERS_RANGES ==
    << <<Players1, <<Lte("min_players", 1), Gte("max_players", 1)>> >>,
       <<Players2, <<Lte("min_players", 2), Gte("max_players", 2)>> >>,
       <<Players3, <<Lte("min_players", 3), Gte("max_players", 3)>> >>,
       <<Players4, <<Lte("min_players", 4), Gte("max_players", 4)>> >>,
       <<Players5Plus, <<Gte("max_players", 5)>> >> >>

\* Object.keys(ranges).some((filt) => filt === item)
HasKey(ranges, item) == \E i \in 1..Len(ranges) : ranges[i][1] = item
\* ranges[item]
Lookup(ranges, item) == ranges[CHOOSE i \in 1..Len(ranges) : ranges[i][1] = item][2]

\* the buckets of params that the table knows, in the order given
KnownBuckets(ranges, params) ==
    LET Known(item) == HasKey(ranges, item)
        kept == SelectSeq(AsArray(params), Known)
    IN  [i \in 1..Len(kept) |-> Lookup(ranges, kept[i])]

\* createFilterClause with the clause kept when no value names a bucket
createFilterClauseKeep(ranges, params) ==
    IF Falsy(params) THEN <<>>
    ELSE <<[bool |-> "should", of |-> KnownBuckets(ranges, params)]>>

createFilterClauseAnd(ranges, params) ==
    IF Falsy(params) THEN <<>>
    ELSE LET filters == KnownBuckets(ranges, params)
         IN  IF Len(filters) # 0 THEN <<[bool |-> "must", of |-> filters]>> ELSE <<>>

\* createFilterClause: <<>> is undefined, <<c>> the clause {bool: {should: filters}}
createFilterClause(ranges, params) ==
    IF Falsy(params) THEN <<>>
    ELSE LET filters == KnownBuckets(ranges, params)
         IN  IF Len(filters) # 0 THEN <<[bool |-> "should", of |-> filters]>> ELSE <<>>

SortEntry(field, order, missing) == [field |-> field, order |-> order, missing |-> missing]

\* createSortClause with an entry for _score when the key names no field
createSortClauseScore(params, reverse) ==
    IF Falsy(params) THEN <<>>
    ELSE LET key == AsArray(params)[1]
         IN  IF key = SortByRank
                THEN <<SortEntry("rank", IF reverse THEN "desc" ELSE "asc", "")>>
             ELSE IF key = SortByRating
                THEN <<SortEntry("rating", IF reverse THEN "asc" ELSE "desc", "")>>
             ELSE IF key = SortByWeight
                THEN <<SortEntry("weight", IF reverse THEN "desc" ELSE "asc", "_last")>>
             ELSE <<SortEntry("_score", IF reverse THEN "asc" ELSE "desc", "")>>

\* createSortClause: <<>> is undefined
createSortClause(params, reverse) ==
    IF Falsy(params) THEN <<>>
    ELSE LET key == AsArray(params)[1]
         IN  IF key = SortByRank
                THEN <<SortEntry("rank", IF reverse THEN "desc" ELSE "asc", "")>>
             ELSE IF key = SortByRating
                THEN <<SortEntry("rating", IF reverse THEN "asc" ELSE "desc", "")>>
             ELSE IF key = SortByWeight
                THEN <<SortEntry("weight", IF reverse THEN "desc" ELSE "asc", "_last")>>
             ELSE <<>>

RECURSIVE JoinWith(_, _)
JoinWith(arr, sep) ==
    IF arr = <<>> THEN <<>>
    ELSE IF Len(arr) = 1 THEN arr[1]
    ELSE arr[1] \o sep \o JoinWith(Tail(arr), sep)

\* createSearchKeywordsClause without the boost of the name field
createSearchKeywordsClausePlain(params) ==
    IF Falsy(params) THEN <<>>
    ELSE LET query == Trim(IF params.t = "str" THEN params.v[1]
                           ELSE JoinWith(params.v, <<" ">>))
         IN  <<[multi_match |-> query, type |-> "bool_prefix",
                fields |-> <<"name", "description">>, operator |-> "and"]>>

\* createSearchKeywordsClause: the list of must clauses
createSearchKeywordsClause(params) ==
    IF Falsy(params) THEN <<>>
    ELSE LET query == Trim(IF params.t = "str" THEN params.v[1]
                           ELSE JoinWith(params.v, <<" ">>))
         IN  <<[multi_match |-> query, type |-> "bool_prefix",
                fields |-> <<"name^10", "description">>, operator |-> "and"]>>

\* createTagMatchClause: one {bool: {should: [{term: {path.id: id}}]}} per id
createTagMatchClause(path, params) ==
    IF Falsy(params) THEN <<>>
    ELSE LET IsId(item) == ToNumber(item) # NaN /\ IsInteger(ParseFloat(item))
             ids == SelectSeq(AsArray(params), IsId)
         IN  [i \in 1..Len(ids) |-> [term |-> path, id |-> ParseInt(ids[i])]]

\* the keys of req.query that the handler reads
QueryKeys ==
    {"keywords", "sort", "reverse", "rank", "rating", "ratingCount", "age",
     "weight", "playtime", "players", "mechanics", "themes", "searchAfterKey"}

\* req.query[key] ? ... : an array is truthy, "" and undefined are not
Truthy(params) == ~Falsy(params)

PageSize == 10

\* the default export of pages/api/search.ts up to db.search: the body it sends
HandlerReverse(q) == q["reverse"].t = "str" /\ q["reverse"].v[1] = <<"1">>

\* the sort list with the rank tie-breaker whatever the keywords are
HandlerSortAlwaysRank(q) ==
    createSortClause(q["sort"], HandlerReverse(q))
      \o <<SortEntry("_score", "", "")>>
      \o <<SortEntry("rank", "asc", "")>>
      \o <<SortEntry("id", IF HandlerReverse(q) THEN "desc" ELSE "asc", "")>>

HandlerSort(q) ==
    createSortClause(q["sort"], HandlerReverse(q))
      \o <<SortEntry("_score", "", "")>>
      \o (IF Truthy(q["keywords"]) THEN <<>> ELSE <<SortEntry("rank", "asc", "")>>)
      \o <<SortEntry("id", IF HandlerReverse(q) THEN "desc" ELSE "asc", "")>>

HandlerFilter(q) ==
    createFilterClause(AGE_RANGES, q["age"])
      \o createFilterClause(RANK_RANGES, q["rank"])
      \o createFilterClause(RATING_RANGES, q["rating"])
      \o createFilterClause(RATING_COUNT_RANGES, q["ratingCount"])
      \o createFilterClause(WEIGHT_RANGES, q["weight"])
      \o createFilterClause(PLAYTIME_RANGES, q["playtime"])
      \o createFilterClause(PLAYERS_RANGES, q["players"])

HandlerBody(q) ==
    [size |-> PageSize,
     search_after |-> createSearchAfterClause(q["searchAfterKey"]),
     sort |-> HandlerSort(q),
     must |-> createSearchKeywordsClause(q["keywords"]),
     should |-> createTagMatchClause("mechanics", q["mechanics"])
                  \o createTagMatchClause("categories", q["themes"]),
     filter |-> HandlerFilter(q)]

-----------------------------------------------------------------------------
(* The search engine behind db.search, as far as the handler relies on it: *)
(* an index of documents, bool queries, sort, search_after, size.          *)

NumDocs == 21

CatanStr == <<"c", "a", "t", "a", "n">>
DiceStr == <<"d", "i", "c", "e">>

\* the sort values the engine gives for a missing value under missing: "_last"
PlusInfinity == StrVal(InfinityStr)
MinusInfinity == StrVal(<<"-">> \o InfinityStr)

\* document i of the index "boardgames"; a weight of Undefined is missing
Doc(i) ==
    [id |-> Int2Num(i),
     rank |-> Int2Num(60 * i),
     rating |-> Norm(FALSE, 60 + 5 * (i % 4), -1),
     weight |-> IF i % 5 = 0 THEN Undefined ELSE Norm(FALSE, 10 + 5 * (i % 7), -1),
     min_age |-> Int2Num((i * 3) % 23),
     num_ratings |-> Int2Num(IF i % 3 = 0 THEN 50 ELSE IF i % 3 = 1 THEN 500 ELSE 20000),
     min_playtime |-> Int2Num(15 * ((i % 5) + 1)),
     max_playtime |-> Int2Num(30 * ((i % 5) + 1)),
     min_players |-> Int2Num(1 + (i % 4)),
     max_players |-> Int2Num(1 + (i % 4) + 2 * (i % 3)),
     mechanics |-> {101 + (i % 2)},
     categories |-> {7 + (i % 3)},
     \* the queries whose terms the name or description holds
     terms |-> (IF i > 1 THEN {CatanStr} ELSE {}) \cup {DiceStr},
     \* the relevance the engine scores a matching document with
     relevance |-> [q \in {CatanStr, DiceStr} |->
                      IF q = CatanStr THEN Norm(FALSE, 15 + 15 * (i % 2), -1)
                      ELSE IF i < PageSize THEN Norm(FALSE, 5 + 10 * (PageSize - i), -1)
                      ELSE Norm(FALSE, 1, PageSize - (i + 7))]]

DocIds == 1..NumDocs
Docs == SubSeq([i \in DocIds |-> Doc(i)], 1, NumDocs)

RECURSIVE Pow10(_)
Pow10(n) == IF n = 0 THEN 1 ELSE 10 * Pow10(n - 1)

NumDigits(n) == Len(DigitsOf(n))
Max(a, b) == IF a < b THEN b ELSE a

\* |a| < |b| for two numbers
MagLess(a, b) ==
    IF b.s = 0 THEN FALSE
    ELSE IF a.s = 0 THEN TRUE
    ELSE LET ka == NumDigits(a.s)
             kb == NumDigits(b.s)
             m == Max(ka, kb)
         IN  IF a.e + ka # b.e + kb THEN a.e + ka < b.e + kb
             ELSE a.s * Pow10(m - ka) < b.s * Pow10(m - kb)

NumLess(a, b) ==
    IF a.neg /\ ~b.neg THEN TRUE
    ELSE IF ~a.neg /\ b.neg THEN FALSE
    ELSE IF a.neg THEN MagLess(b, a)
    ELSE MagLess(a, b)

\* how the engine reads a sort value or a search_after value of a numeric
\* field: a number as it is, a string parsed ("Infinity", "-Infinity" or a
\* decimal literal); anything else it cannot read
Readable(x) ==
    \/ x.k = "num"
    \/ x.k = "str" /\ x.str \in {InfinityStr, <<"-">> \o InfinityStr}
    \/ x.k = "str" /\ x.str # <<>> /\ ToNumber(x.str) # NaN

\* the class of an engine value: -1 for -Infinity, 0 for a number, 1 for Infinity
EngineClass(x) ==
    IF x.k = "str" /\ x.str = InfinityStr THEN 1
    ELSE IF x.k = "str" /\ x.str = <<"-">> \o InfinityStr THEN 0 - 1
    ELSE 0

EngineNum(x) == IF x.k = "str" THEN ToNumber(x.str) ELSE x

EngineLess(a, b) ==
    IF EngineClass(a) # EngineClass(b) THEN EngineClass(a) < EngineClass(b)
    ELSE EngineClass(a) = 0 /\ NumLess(EngineNum(a), EngineNum(b))

\* a range predicate on a document (a missing field matches no range)
RangeHolds(r, d) ==
    /\ d[r.field].k = "num"
    /\ r.gte = None \/ ~NumLess(d[r.field], Int2Num(r.gte))
    /\ r.lte = None \/ ~NumLess(Int2Num(r.lte), d[r.field])

BucketHolds(bucket, d) == \A j \in 1..Len(bucket) : RangeHolds(bucket[j], d)

\* a clause in filter context: bool.should needs one of its clauses to
\* match, bool.must all of them
ClauseHolds(c, d) ==
    IF c.bool = "should" THEN \E j \in 1..Len(c.of) : BucketHolds(c.of[j], d)
    ELSE \A j \in 1..Len(c.of) : BucketHolds(c.of[j], d)

MustHolds(m, d) == m.multi_match \in d.terms

\* a should clause of the query: a term match on mechanics.id or categories.id
ShouldHolds(c, d) == \E tag \in d[c.term] : Int2Num(tag) = c.id

\* the should clauses of the query that a document matches
ShouldHits(b, d) == Cardinality({j \in 1..Len(b.should) : ShouldHolds(b.should[j], d)})

\* minimum_should_match of a bool query: 1 when it has should clauses and
\* neither a must nor a filter clause, 0 otherwise
MinimumShouldMatch(b) ==
    IF b.should # <<>> /\ b.must = <<>> /\ b.filter = <<>> THEN 1 ELSE 0

\* the documents a query selects: every must and every filter clause holds,
\* and as many should clauses as minimum_should_match asks for
QueryMatches(b, d) ==
    /\ \A j \in 1..Len(b.must) : MustHolds(b.must[j], d)
    /\ \A j \in 1..Len(b.filter) : ClauseHolds(b.filter[j], d)
    /\ ShouldHits(b, d) >= MinimumShouldMatch(b)

\* x + n for a score x and a count n
PlusCount(x, n) ==
    IF n = 0 THEN x
    ELSE IF x.e >= 0 THEN Norm(FALSE, x.s * Pow10(x.e) + n, 0)
    ELSE Norm(FALSE, x.s + n * Pow10(0 - x.e), x.e)

\* _score: the relevance of the keywords match, and one more for every
\* should clause the document matches
Score(b, d) ==
    IF b.must = <<>> THEN Int2Num(ShouldHits(b, d))
    ELSE PlusCount(d.relevance[b.must[1].multi_match], ShouldHits(b, d))

\* the direction of a sort entry: _score sorts descending by default
Descending(entry) ==
    entry.order = "desc" \/ (entry.order = "" /\ entry.field = "_score")

\* the sort value of a document for one sort entry
SortValue(b, entry, d) ==
    IF entry.field = "_score" THEN Score(b, d)
    ELSE IF d[entry.field].k = "undefined"
        THEN (IF Descending(entry) THEN MinusInfinity ELSE PlusInfinity)
    ELSE d[entry.field]

\* a function on 1..n as an evaluated sequence
Seq1(f, n) == SubSeq(f, 1, n)

SortTuple(b, d) == Seq1([j \in 1..Len(b.sort) |-> SortValue(b, b.sort[j], d)], Len(b.sort))

\* tuple x comes strictly before tuple y under the sort list
RECURSIVE TupleBefore(_, _, _, _)
TupleBefore(sort, x, y, j) ==
    IF j > Len(sort) THEN FALSE
    ELSE IF x[j] = y[j] THEN TupleBefore(sort, x, y, j + 1)
    ELSE IF Descending(sort[j]) THEN EngineLess(y[j], x[j])
    ELSE EngineLess(x[j], y[j])

\* the engine rejects a search_after whose length is not that of the sort
\* list or that holds a value it cannot read
SearchAfterOk(b) ==
    \/ ~b.search_after.defined
    \/ /\ Len(b.search_after.key) = Len(b.sort)
       /\ \A j \in 1..Len(b.sort) : Readable(b.search_after.key[j])

\* ids in sort order with id i put at place n + 1
InsertAt(ids, i, n) == SubSeq(ids, 1, n) \o <<i>> \o SubSeq(ids, n + 1, Len(ids))

\* ids in sort order with one more id put at its place
InsertSorted(sort, tuples, ids, i) ==
    InsertAt(ids, i, Cardinality({p \in 1..Len(ids) :
                                    TupleBefore(sort, tuples[ids[p]], tuples[i], 1)}))

\* the documents of keep among 1..k, in sort order
RECURSIVE SortDocs(_, _, _, _)
SortDocs(sort, tuples, keep, k) ==
    IF k = 0 THEN <<>>
    ELSE IF k \in keep
        THEN InsertSorted(sort, tuples, SortDocs(sort, tuples, keep, k - 1), k)
    ELSE SortDocs(sort, tuples, keep, k - 1)

Min(a, b) == IF a < b THEN a ELSE b

\* the first n of the ids all, each hit with its sort tuple
DbHits(tuples, all, n, total) ==
    [ok |-> TRUE,
     hits |-> Seq1([p \in 1..n |-> [id |-> all[p], sort |-> tuples[all[p]]]], n),
     total |-> total]

\* the first size of the sorted ids
DbPage(size, tuples, all, total) == DbHits(tuples, all, Min(size, Len(all)), total)

\* the matching documents that come after search_after, sorted
DbSorted(b, tuples, matching) ==
    DbPage(b.size, tuples,
           SortDocs(b.sort, tuples,
                    {i \in matching :
                       \/ ~b.search_after.defined
                       \/ TupleBefore(b.sort, b.search_after.key, tuples[i], 1)},
                    NumDocs),
           Cardinality(matching))

\* db.search: results["hits"], or a failure.  The hits are the first size
\* matching documents that come after search_after; total counts every
\* matching document
DbSearch(b) ==
    IF ~SearchAfterOk(b) THEN [ok |-> FALSE, hits |-> <<>>, total |-> 0]
    ELSE DbSorted(b, Seq1([i \in DocIds |-> SortTuple(b, Docs[i])], NumDocs),
                  {i \in DocIds : QueryMatches(b, Docs[i])})

-----------------------------------------------------------------------------
(* redux/filters.ts: the FilterSet, its defaults and its URL form.         *)
(* A FilterSet is a function from field names to values; strings are       *)
(* character sequences, arrays are sequences, ids are numbers.  A decoded  *)
(* or encoded query is a function whose domain is the keys that have a     *)
(* value: a key that is undefined or null is outside the domain.           *)

FilterKeys ==
    {"keywords", "sort", "reverse", "rank", "rating", "ratingCount", "weight",
     "age", "playtime", "players", "mechanics", "themes"}

DEFAULT_SEARCH_FILTERS ==
    [key \in FilterKeys |->
        IF key = "keywords" THEN <<>>
        ELSE IF key = "sort" THEN SortByRelevance
        ELSE IF key = "reverse" THEN FALSE
        ELSE IF key \in {"rank", "rating", "ratingCount"} THEN FilterAny
        ELSE <<>>]

\* QUERY_PARAM_TYPES; a key it does not hold is passed through as it is
ParamType(key) ==
    IF key \in {"keywords", "sort", "rank", "rating", "ratingCount"} THEN "StringParam"
    ELSE IF key = "reverse" THEN "BooleanParam"
    ELSE IF key \in {"age", "weight", "playtime", "players"} THEN "DelimitedArrayParam"
    ELSE IF key \in {"mechanics", "themes"} THEN "DelimitedNumericArrayParam"
    ELSE "none"

\* Array.isArray of the value a key holds
IsArrayKey(key) ==
    ParamType(key) \in {"DelimitedArrayParam", "DelimitedNumericArrayParam"}

Null == [k |-> "null", neg |-> FALSE, s |-> 0, e |-> 0, str |-> <<>>]

\* String(x) of an array element; Array.prototype.join writes null as ""
StringOf(x) == IF x.k = "null" THEN <<"n", "u", "l", "l">> ELSE NumberToString(x)
JoinItem(x) == IF x.k = "null" THEN <<>> ELSE NumberToString(x)

Delimiter == <<"_">>

\* String.prototype.split with a one-character separator
RECURSIVE Split(_, _)
Split(str, sep) ==
    LET n == PrefixLen(str, {c \in {str[i] : i \in 1..Len(str)} : c # sep})
    IN  IF n = Len(str) THEN <<str>>
        ELSE <<SubSeq(str, 1, n)>> \o Split(Drop(str, n + 1), sep)

\* EncodeParam with the arrays written the way Array.prototype.toString does
EncodeParamComma(key, value) ==
    IF ParamType(key) = "BooleanParam" THEN (IF value THEN <<"1">> ELSE <<"0">>)
    ELSE IF ParamType(key) = "DelimitedArrayParam" THEN JoinWith(value, <<",">>)
    ELSE IF ParamType(key) = "DelimitedNumericArrayParam"
        THEN JoinWith([i \in 1..Len(value) |-> JoinItem(value[i])], <<",">>)
    ELSE IF ParamType(key) = "none"
        THEN (IF value.t = "arr" THEN JoinWith(value.v, <<",">>) ELSE value.v[1])
    ELSE value

\* the encode of each parameter type, for a value that is defined
EncodeParam(key, value) ==
    IF ParamType(key) = "BooleanParam" THEN (IF value THEN <<"1">> ELSE <<"0">>)
    ELSE IF ParamType(key) = "DelimitedArrayParam" THEN JoinWith(value, Delimiter)
    ELSE IF ParamType(key) = "DelimitedNumericArrayParam"
        THEN JoinWith([i \in 1..Len(value) |-> JoinItem(value[i])], Delimiter)
    ELSE IF ParamType(key) = "none"
        THEN (IF value.t = "arr" THEN JoinWith(value.v, <<",">>) ELSE value.v[1])
    ELSE value

\* getEncodedValue: the first value of a repeated key
FirstValue(param) == param.v[1]

\* the decode of each parameter type: <<>> is undefined or null, <<v>> a value;
\* a key that is not configured keeps what parse() read
DecodeParam(key, param) ==
    LET str == FirstValue(param)
    IN  IF param.t = "null" THEN <<>>
        ELSE IF ParamType(key) = "none" THEN <<param>>
        ELSE IF ParamType(key) = "BooleanParam"
            THEN (IF str = <<"1">> THEN <<TRUE>>
                  ELSE IF str = <<"0">> THEN <<FALSE>> ELSE <<>>)
        ELSE IF ParamType(key) = "DelimitedArrayParam"
            THEN (IF str = <<>> THEN << <<>> >> ELSE <<Split(str, "_")>>)
        ELSE IF ParamType(key) = "DelimitedNumericArrayParam"
            THEN (IF str = <<>> THEN << <<>> >>
                  ELSE LET parts == Split(str, "_")
                       IN  <<[i \in 1..Len(parts) |->
                                IF parts[i] = <<>> THEN Null ELSE ToNumber(parts[i])]>>)
        ELSE <<str>>

\* equals without its case for arrays: a === b, which no two arrays satisfy
equalsIdentity(key, a, b) ==
    IF IsArrayKey(key) THEN FALSE
    ELSE IF ParamType(key) = "none" THEN a.t = "str" /\ a = b
    ELSE a = b

\* equals(a, b) for the values of one key; a key that is not configured
\* holds a string, or an array that is never the same object as another
equals(key, a, b) ==
    IF IsArrayKey(key) THEN Len(a) = 0 /\ Len(a) = Len(b)
    ELSE IF ParamType(key) = "none" THEN a.t = "str" /\ a = b
    ELSE a = b

\* the entries update() hands to encodeQueryParams that are not undefined
UpdateEntries(filters) ==
    {key \in DOMAIN filters :
        \/ key \notin FilterKeys
        \/ ~equals(key, DEFAULT_SEARCH_FILTERS[key], filters[key])}

\* update(filters): the query that Router.replace is given, as parse reads
\* it: one string per key that is written
UpdateQuery(filters) ==
    [key \in UpdateEntries(filters) |-> StrParam(EncodeParam(key, filters[key]))]

\* decodeQueryParamsStr: the decoded value of every key that has one
decodeQueryParamsStr(query) ==
    LET hasValue == {key \in DOMAIN query : DecodeParam(key, query[key]) # <<>>}
    IN  [key \in hasValue |-> DecodeParam(key, query[key])[1]]

\* the keys of an update that diff() keeps
\* diff with every key of the update taken for changed
DiffKeysAll(state, upd) == DOMAIN upd

DiffKeys(state, upd) ==
    {key \in DOMAIN upd :
        IF key \in DOMAIN state THEN ~equals(key, state[key], upd[key]) ELSE TRUE}

\* {...state, ...diff} for the keys that diff holds
DiffMerge(state, upd, keys) ==
    IF keys # {}
    THEN [key \in DOMAIN state \cup keys |-> IF key \in keys THEN upd[key] ELSE state[key]]
    ELSE state

\* diff(state, update): state itself when nothing differs
diff(state, upd) == DiffMerge(state, upd, DiffKeys(state, upd))

\* whether diff() returns a new object, which is what subscribers see
Changed(state, upd) == DiffKeys(state, upd) # {}

-----------------------------------------------------------------------------
(* lib/api.ts search(): the request the client sends for a FilterSet and a *)
(* cursor, and what it gets back.                                          *)

\* encodeQueryParams and stringify in search(), as req.query reads the URL
ClientQuery(filters, key) ==
    [k \in QueryKeys |->
        IF k = "searchAfterKey" THEN QueryValue(EncodeSearchAfterKey(key))
        ELSE IF ParamType(k) = "StringParam" THEN StrParam(filters[k])
        ELSE IF ParamType(k) = "BooleanParam"
            THEN StrParam(IF filters[k] THEN <<"1">> ELSE <<"0">>)
        ELSE IF ParamType(k) = "DelimitedArrayParam" THEN QueryValue(filters[k])
        ELSE QueryValue([i \in 1..Len(filters[k]) |-> StringOf(filters[k][i])])]

\* the handler's answer: 200 with results["hits"], or no result body when
\* db.search rejects
ResponseOf(r) ==
    IF r.ok THEN [status |-> 200, hits |-> r.hits, total |-> r.total]
    ELSE [status |-> 500, hits |-> <<>>, total |-> 0]

HandlerResponse(q) == ResponseOf(DbSearch(HandlerBody(q)))

\* search(filters, searchAfterKey): the Results the promise resolves with
search(filters, key) == HandlerResponse(ClientQuery(filters, key))

-----------------------------------------------------------------------------
(* redux/filters.ts: the reducers of the slice.  Router.replace in         *)
(* update() is the write of url.                                           *)

EmptyQuery == [key \in {} |-> NoParam]

\* the sets of at most n <<key, value>> choices, no key chosen twice
RECURSIVE Picks(_, _)
Picks(choices, n) ==
    IF n = 0 THEN {{}}
    ELSE LET fewer == Picks(choices, n - 1)
         IN  fewer \cup
             UNION {{p \cup {c} : c \in {x \in choices : \A d \in p : d[1] # x[1]}} :
                    p \in fewer}

StoreInit(urls) ==
    /\ selected = DEFAULT_SEARCH_FILTERS
    /\ loaded = FALSE
    /\ url \in urls

\* reducers.reset
ReducerReset ==
    /\ selected' = diff(selected, DEFAULT_SEARCH_FILTERS)
    /\ url' = UpdateQuery(selected')
    /\ loaded' = loaded

\* reducers.update
ReducerUpdate(payload) ==
    /\ selected' = diff(selected, payload)
    /\ url' = UpdateQuery(selected')
    /\ loaded' = loaded

\* reducers.loadFromQueryParams
ReducerLoadFromQueryParams ==
    /\ selected' = diff(selected, decodeQueryParamsStr(url))
    /\ loaded' = TRUE
    /\ url' = url

-----------------------------------------------------------------------------
(* pages/index.tsx, HomePage: the pager.                                   *)

MaxPending == 2
MaxGames == 22

NoCursor == [defined |-> FALSE, key |-> <<>>]
Cursor(key) == [defined |-> TRUE, key |-> key]
NoFilters == [key \in {} |-> <<>>]

PagerInit ==
    /\ games = <<>>
    /\ searchAfterKey = NoCursor
    /\ moreResults = TRUE
    /\ pending = {}
    /\ cursorOf = NoFilters

\* a call of loadGames that has not returned: its arguments, whether its
\* search() is still awaited, and whether its loader timer is still set (the
\* timer's callback does nothing when searchAfter is given, so only the
\* timer of a first-page call is kept).  Two calls with the same arguments
\* are two calls: copy tells them apart.
Call(filters, searchAfter, from, copy) ==
    [filters |-> filters, first |-> ~searchAfter.defined,
     games |-> searchAfter.games, key |-> searchAfter.key, keyFrom |-> from,
     awaiting |-> TRUE, timer |-> ~searchAfter.defined, copy |-> copy]

NoSearchAfter == [defined |-> FALSE, games |-> <<>>, key |-> <<>>]

\* the copies taken by the calls in flight that have these arguments
CopiesOf(filters, searchAfter, from) ==
    {call.copy : call \in {c \in pending :
        [c EXCEPT !.awaiting = TRUE, !.timer = c.first]
            = Call(filters, searchAfter, from, c.copy)}}

\* the lowest copy that is free
FreeCopy(filters, searchAfter, from) ==
    CHOOSE copy \in 1..(Cardinality(pending) + 1) :
        /\ copy \notin CopiesOf(filters, searchAfter, from)
        /\ \A c \in 1..(copy - 1) : c \in CopiesOf(filters, searchAfter, from)

\* loadGames up to its await: the timer is set and the request is sent
LoadGamesStart(filters, searchAfter, from) ==
    pending' = pending \cup
        {Call(filters, searchAfter, from, FreeCopy(filters, searchAfter, from))}

\* the effect on [filters, loadGames]: it runs when the selector's value is
\* a new object, and the selector gives selected only once loaded
FiltersEffect(changed) ==
    IF loaded' /\ changed
    THEN /\ Cardinality(pending) < MaxPending
         /\ LoadGamesStart(selected', NoSearchAfter, NoFilters)
    ELSE pending' = pending

\* the effect that dispatches loadFromQueryParams when HomePage mounts
Mount ==
    /\ ~loaded
    /\ ReducerLoadFromQueryParams
    /\ FiltersEffect(TRUE)
    /\ UNCHANGED <<games, searchAfterKey, moreResults, cursorOf>>

\* SearchFiltersMenu dispatches update with one field
Update(payload) ==
    /\ loaded
    /\ ReducerUpdate(payload)
    /\ FiltersEffect(Changed(selected, payload))
    /\ UNCHANGED <<games, searchAfterKey, moreResults, cursorOf>>

\* the "Clear all" button dispatches reset
Reset ==
    /\ loaded
    /\ ReducerReset
    /\ FiltersEffect(Changed(selected, DEFAULT_SEARCH_FILTERS))
    /\ UNCHANGED <<games, searchAfterKey, moreResults, cursorOf>>

\* InfiniteScroll calls loadMore on a scroll near the end while hasMore;
\* every render of HomePage attaches its scroll listener again
LoadMore ==
    /\ moreResults
    /\ searchAfterKey.defined /\ loaded
    /\ Cardinality(pending) < MaxPending
    /\ LoadGamesStart(selected,
                      [defined |-> TRUE, games |-> games, key |-> searchAfterKey.key],
                      cursorOf)
    /\ UNCHANGED <<games, searchAfterKey, moreResults, cursorOf>>
    /\ UNCHANGED storeVars

HitIds(hits) == [p \in 1..Len(hits) |-> hits[p].id]

\* the list of games as far as it is kept: MaxGames is more than any total,
\* and what a list holds beyond it is left out
Shown(list) == SubSeq(list, 1, Min(Len(list), MaxGames))

\* loadGames after its await with the cursor taken from the first hit
LoadGamesApplyFirstHit(call, results) ==
    /\ results.status = 200
    /\ searchAfterKey' = IF Len(results.hits) # 0
                           THEN Cursor(results.hits[1].sort)
                           ELSE NoCursor
    /\ games' = Shown(IF ~call.first THEN call.games \o HitIds(results.hits)
                      ELSE HitIds(results.hits))
    /\ moreResults' = (results.total #
                         Len(results.hits) + (IF ~call.first THEN Len(call.games) ELSE 0))

\* loadGames after its await, for results that search() resolved with
LoadGamesApply(call, results) ==
    /\ results.status = 200
    /\ searchAfterKey' = IF Len(results.hits) # 0
                           THEN Cursor(results.hits[Len(results.hits)].sort)
                           ELSE NoCursor
    /\ games' = Shown(IF ~call.first THEN call.games \o HitIds(results.hits)
                      ELSE HitIds(results.hits))
    /\ moreResults' = (results.total #
                         Len(results.hits) + (IF ~call.first THEN Len(call.games) ELSE 0))

\* the response of a request arrives with a result body
Respond(call) ==
    /\ call \in pending /\ call.awaiting
    /\ LoadGamesApply(call, search(call.filters, call.key))
    /\ cursorOf' = call.filters
    /\ pending' = pending \ {call}
    /\ UNCHANGED storeVars

\* the request fails.  fetch rejects or the body is no JSON: the await
\* throws and loadGames ends there, its timer still set.  Or the body is
\* JSON without hits: search() resolves, the timer is cleared and reading
\* results.hits.length throws.
Fail(call) ==
    /\ call \in pending /\ call.awaiting
    /\ \/ pending' = (pending \ {call}) \cup
                        (IF call.timer THEN {[call EXCEPT !.awaiting = FALSE]} ELSE {})
       \/ pending' = pending \ {call}
    /\ UNCHANGED <<games, searchAfterKey, moreResults, cursorOf>>
    /\ UNCHANGED storeVars

\* the one-second timer of a call fires
ShowLoader(call) ==
    /\ call \in pending /\ call.timer
    /\ games' = IF call.first THEN <<>> ELSE games
    /\ pending' = (pending \ {call}) \cup
                    (IF call.awaiting THEN {[call EXCEPT !.timer = FALSE]} ELSE {})
    /\ UNCHANGED <<searchAfterKey, moreResults, cursorOf>>
    /\ UNCHANGED storeVars

\* a map with one key
One(key, value) == [k \in {key} |-> value]

\* the URLs the page is opened with and the updates the menu dispatches
PagerUrls == {EmptyQuery, One("keywords", StrParam(CatanStr))}
ZzzStr == <<"z", "z", "z">>
PagerPayloads ==
    {One("keywords", CatanStr), One("keywords", <<>>), One("keywords", ZzzStr),
     One("players", <<>>)}

-----------------------------------------------------------------------------
(* The values the variables of the other parts keep while one part runs.   *)

NoBody == [compiled |-> FALSE, q |-> <<>>]
NoResponse == [status |-> 0, hits |-> <<>>, total |-> 0]
NoTokens == [sent |-> FALSE, v |-> <<>>]

StoreIdle == selected = DEFAULT_SEARCH_FILTERS /\ loaded = FALSE /\ url = EmptyQuery
ApiIdle == req = EmptyQuery /\ body = NoBody /\ res = NoResponse
CursorIdle == hitSort = <<>> /\ tokens = NoTokens /\ search_after = NoCursor
PagingIdle ==
    pageFilters = NoFilters /\ pageCursor = <<>> /\ fetched = <<>> /\ pageDone = FALSE

\* a Tag of lib/api.ts
Tag(id, name) == [id |-> id, name |-> name]

NoTags == [mechanics |-> <<>>, themes |-> <<>>]
NoAfterKey == [defined |-> FALSE, key |-> Tag(0, <<>>)]
NoWalk ==
    [phase |-> "idle", tags |-> <<>>, after |-> NoAfterKey, mechanics |-> <<>>,
     returned |-> {}, pages |-> [mechanics |-> 0, themes |-> 0]]
NoTagsResponse == [status |-> 0, json |-> FALSE, body |-> NoTags]

\* the initial state of the slice "tags"
INITIAL_STATE == [themes |-> <<>>, mechanics |-> <<>>, loaded |-> FALSE]

TagsIdle ==
    /\ tagIndex = [mechanics |-> {}, categories |-> {}]
    /\ walk = NoWalk /\ tagsRes = NoTagsResponse
    /\ tagsThunk = "none" /\ tagStore = INITIAL_STATE

-----------------------------------------------------------------------------
(* The home page: store and pager together.                                *)

Init == StoreInit(PagerUrls) /\ PagerInit /\ ApiIdle /\ CursorIdle /\ PagingIdle
    /\ TagsIdle

Others == UNCHANGED <<apiVars, cursorVars, pagingVars, tagsVars>>

Next ==
    \/ Mount /\ Others
    \/ \E payload \in PagerPayloads : Update(payload) /\ Others
    \/ Reset /\ Others
    \/ LoadMore /\ Others
    \/ \E call \in pending : Respond(call) /\ Others
    \/ \E call \in pending : Fail(call) /\ Others
    \/ \E call \in pending : ShowLoader(call) /\ Others

Spec == Init /\ [][Next]_vars

-----------------------------------------------------------------------------
(* The filters slice alone: the reducers in any order, from any URL.       *)

MaxUrlParams == 2

FooStr == <<"f", "o", "o">>

\* what a URL may hold for a key: known and unknown values of every field,
\* empty values, a key without "=", a repeated key, and a key that is no field
UrlChoices ==
    {<<"keywords", StrParam(CatanStr)>>, <<"keywords", StrParam(<<>>)>>,
     <<"keywords", NullParam>>,
     <<"sort", StrParam(SortByRating)>>, <<"sort", StrParam(FooStr)>>,
     <<"reverse", StrParam(<<"1">>)>>, <<"reverse", StrParam(<<"0">>)>>,
     <<"reverse", StrParam(<<"t", "r", "u", "e">>)>>,
     <<"rank", StrParam(RankTop100)>>, <<"rank", StrParam(<<>>)>>,
     <<"rating", StrParam(Rating8Plus)>>,
     <<"ratingCount", ArrParam(<<RatingCount1000Plus, RatingCount100Plus>>)>>,
     <<"weight", StrParam(Weight1to2 \o Delimiter \o Weight2to3)>>,
     <<"age", StrParam(Age5To10)>>, <<"age", StrParam(<<>>)>>,
     <<"playtime", StrParam(Delimiter)>>,
     <<"players", StrParam(Players2 \o Delimiter \o FooStr)>>,
     <<"mechanics", StrParam(<<"1", "0", "1", "_", "2", "0", "2">>)>>,
     <<"mechanics", StrParam(<<"1", "e", "2", "_">>)>>,
     <<"themes", StrParam(<<"7">>)>>, <<"themes", StrParam(FooStr)>>,
     <<"foo", StrParam(<<"b", "a", "r">>)>>}

\* the URLs that hold at most n keys
Urls(n) ==
    {[key \in {c[1] : c \in cs} |-> (CHOOSE c \in cs : c[1] = key)[2]] :
        cs \in Picks(UrlChoices, n)}

\* the payloads SearchFiltersMenu dispatches update with
MenuPayloads ==
    {One("keywords", CatanStr), One("keywords", <<>>),
     One("sort", SortByRank), One("reverse", TRUE), One("reverse", FALSE),
     One("rank", RankTop500),
     One("players", <<Players2, Players4>>), One("players", <<>>),
     One("mechanics", <<Int2Num(101), Int2Num(202)>>)}

PagerIdle ==
    /\ games = <<>> /\ searchAfterKey = NoCursor /\ moreResults = TRUE
    /\ pending = {} /\ cursorOf = NoFilters

InitFilters == StoreInit(Urls(MaxUrlParams)) /\ PagerIdle /\ ApiIdle /\ CursorIdle /\ PagingIdle
    /\ TagsIdle

OthersFilters == UNCHANGED <<pagerVars, apiVars, cursorVars, pagingVars, tagsVars>>

NextFilters ==
    \/ ReducerLoadFromQueryParams /\ OthersFilters
    \/ \E payload \in MenuPayloads : ReducerUpdate(payload) /\ OthersFilters
    \/ ReducerReset /\ OthersFilters

SpecFilters == InitFilters /\ [][NextFilters]_vars

-----------------------------------------------------------------------------
(* Properties of the filters slice.                                        *)

\* loadFromQueryParams applied to the default state, for the query update(f) writes
DecodeOfEncode(f) == diff(DEFAULT_SEARCH_FILTERS, decodeQueryParamsStr(UpdateQuery(f)))

\* C4: for every reachable FilterSet f, decoding the query string that
\* update(f) writes gives back f, field by field over the twelve fields.
C4_RoundTrip ==
    LET decoded == DecodeOfEncode(selected)
    IN  \A key \in FilterKeys : decoded[key] = selected[key]

\* a FilterSet with a string, a boolean, a string array and a numeric array
\* away from their defaults, just written to the URL by update
C4_Witness ==
    /\ selected["keywords"] = CatanStr
    /\ selected["reverse"] = TRUE
    /\ selected["players"] = <<Players2, Players4>>
    /\ selected["mechanics"] = <<Int2Num(101), Int2Num(202)>>
    /\ url = UpdateQuery(selected)
    /\ Cardinality(DOMAIN url) = 4

\* C5: update(f) writes exactly the fields of f that differ from
\* DEFAULT_SEARCH_FILTERS: a field at its default is never in the written
\* query, and with every field at its default the written query is empty.
C5_DefaultsNotWritten ==
    LET written == UpdateQuery(selected)
    IN  /\ \A key \in FilterKeys :
            key \in DOMAIN written <=> selected[key] # DEFAULT_SEARCH_FILTERS[key]
        /\ selected = DEFAULT_SEARCH_FILTERS => written = EmptyQuery

\* update has written a URL for a FilterSet with some fields at their
\* defaults and some away from them
C5_Witness ==
    /\ url = UpdateQuery(selected)
    /\ DOMAIN url = {"sort", "players"}
    /\ selected["players"] = <<Players2, Players4>>
    /\ selected["age"] = <<>> /\ selected["keywords"] = <<>>

\* the query of the URL without the keys that are no FilterSet field
KnownPart(query) == [key \in DOMAIN query \cap FilterKeys |-> query[key]]

\* C6: loadFromQueryParams ignores a key of the URL that is no FilterSet
\* field: selected has exactly the twelve fields and is what the same URL
\* without that key gives.
C6_UnknownKeyIgnored ==
    loaded =>
        /\ DOMAIN selected = FilterKeys
        /\ \A key \in FilterKeys :
              diff(selected, decodeQueryParamsStr(url))[key]
                = diff(selected, decodeQueryParamsStr(KnownPart(url)))[key]

-----------------------------------------------------------------------------
(* The /api/search handler alone: any request, compiled and answered.      *)

MaxParams == 2

BogusStr == <<"b", "o", "g", "u", "s">>

\* what req.query may hold for a key: a value, an empty value, a repeated
\* key, names that are no bucket; a cursor of one token, of as many tokens as
\* the sort list has entries or of another number, with a token that is
\* "Infinity" and with one that is no number
ParamChoices ==
    {<<"keywords", StrParam(CatanStr)>>, <<"keywords", StrParam(<<>>)>>,
     <<"keywords", ArrParam(<<CatanStr, <<>> >>)>>,
     <<"sort", StrParam(SortByRelevance)>>, <<"sort", StrParam(SortByRank)>>,
     <<"sort", StrParam(SortByRating)>>, <<"sort", StrParam(SortByWeight)>>,
     <<"sort", StrParam(BogusStr)>>, <<"sort", ArrParam(<<SortByRating, SortByRank>>)>>,
     <<"reverse", StrParam(<<"1">>)>>, <<"reverse", StrParam(<<"0">>)>>,
     <<"reverse", ArrParam(<<<<"1">>, <<"1">>>>)>>,
     <<"rank", StrParam(FilterAny)>>, <<"rank", StrParam(RankTop500)>>,
     <<"rating", StrParam(Rating5Plus)>>,
     <<"ratingCount", StrParam(RatingCount1000Plus)>>,
     <<"age", StrParam(Age5To10)>>, <<"age", ArrParam(<<Age0To4, Age21Plus>>)>>,
     <<"age", StrParam(BogusStr)>>,
     <<"weight", ArrParam(<<Weight1to2, Weight2to3>>)>>,
     <<"playtime", StrParam(Playtime30to60)>>,
     <<"playtime", ArrParam(<<Playtime0to30, Playtime120Plus>>)>>,
     <<"players", StrParam(Players2)>>, <<"players", ArrParam(<<Players2, Players4>>)>>,
     <<"players", ArrParam(<<BogusStr, Players5Plus>>)>>,
     <<"players", ArrParam(<<BogusStr, BogusStr>>)>>,
     <<"mechanics", StrParam(<<"1", "0", "1">>)>>,
     <<"mechanics", ArrParam(<<<<"1", "0", "1">>, <<"1", ".", "5">>, BogusStr>>)>>,
     <<"themes", StrParam(<<"7">>)>>,
     <<"searchAfterKey", ArrParam(<<<<"0">>, <<"1", "2", "0">>, <<"2">>>>)>>,
     <<"searchAfterKey", ArrParam(<<InfinityStr, <<"0">>, <<"1", "2", "0">>, <<"2">>>>)>>,
     <<"searchAfterKey", ArrParam(<<BogusStr, <<"1", "2", "0">>, <<"2">>>>)>>,
     <<"searchAfterKey", StrParam(<<"7">>)>>,
     <<"searchAfterKey", StrParam(<<>>)>>}

\* the requests that carry at most n parameters
Requests(n) ==
    {[key \in QueryKeys |->
        IF \E c \in cs : c[1] = key THEN (CHOOSE c \in cs : c[1] = key)[2] ELSE NoParam] :
        cs \in Picks(ParamChoices, n)}

\* the FilterSets paged through
PagingFilters ==
    {[DEFAULT_SEARCH_FILTERS EXCEPT !["keywords"] = k, !["sort"] = s,
                                    !["reverse"] = r, !["players"] = p,
                                    !["rank"] = t] :
        k \in {<<>>, CatanStr, DiceStr},
        s \in {SortByRelevance, SortByRank, SortByRating, SortByWeight},
        r \in BOOLEAN,
        p \in {<<>>, <<Players2, Players4>>},
        t \in {FilterAny, RankTop500}}

\* the requests search() sends for a FilterSet when it is given no cursor
FirstRequests == {ClientQuery(f, <<>>) : f \in PagingFilters}

InitQuery ==
    /\ req \in Requests(MaxParams) \cup FirstRequests
    /\ body = NoBody /\ res = NoResponse
    /\ StoreIdle /\ PagerIdle /\ CursorIdle /\ PagingIdle /\ TagsIdle

\* the handler up to its await: the body of db.search is built
HandlerCompile ==
    /\ ~body.compiled
    /\ body' = [compiled |-> TRUE, q |-> HandlerBody(req)]
    /\ UNCHANGED <<req, res>>

\* the handler after its await: 200 with the hits, or the rejection
HandlerAnswer ==
    /\ body.compiled /\ res = NoResponse
    /\ res' = HandlerResponse(req)
    /\ UNCHANGED <<req, body>>

OthersQuery == UNCHANGED <<storeVars, pagerVars, cursorVars, pagingVars, tagsVars>>

NextQuery ==
    \/ HandlerCompile /\ OthersQuery
    \/ HandlerAnswer /\ OthersQuery

SpecQuery == InitQuery /\ [][NextQuery]_vars

\* the bucket families in the order the handler lists them
Families ==
    << <<"age", AGE_RANGES>>, <<"rank", RANK_RANGES>>, <<"rating", RATING_RANGES>>,
       <<"ratingCount", RATING_COUNT_RANGES>>, <<"weight", WEIGHT_RANGES>>,
       <<"playtime", PLAYTIME_RANGES>>, <<"players", PLAYERS_RANGES>> >>

\* the values selected for a family that name one of its buckets
NamedBuckets(q, fam) ==
    LET Named(item) == \E i \in 1..Len(fam[2]) : fam[2][i][1] = item
    IN  SelectSeq(q[fam[1]].v, Named)

\* document d lies in bucket item of family fam
InBucket(fam, item, d) ==
    \E i \in 1..Len(fam[2]) :
        /\ fam[2][i][1] = item
        /\ \A j \in 1..Len(fam[2][i][2]) : RangeHolds(fam[2][i][2][j], d)

\* C7: the compiled query has one filter clause per bucket family exactly
\* when a selected value names a bucket of the family; the clause is the OR
\* of the selected buckets' range predicates, the clauses of the families are
\* ANDed, and players ["2", "4"] gives
\* OR(min_players <= 2 AND max_players >= 2, min_players <= 4 AND max_players >= 4).
C7_FilterClauses ==
    body.compiled =>
        LET HasNamed(fam) == NamedBuckets(req, fam) # <<>>
            active == SelectSeq(Families, HasNamed)
            filter == body.q.filter
        IN  /\ Len(filter) = Len(active)
            /\ \A j \in 1..Len(active) :
                  /\ filter[j].bool = "should"
                  /\ Len(filter[j].of) = Len(NamedBuckets(req, active[j]))
                  /\ \A d \in DocIds :
                        ClauseHolds(filter[j], Docs[d])
                          <=> \E k \in 1..Len(NamedBuckets(req, active[j])) :
                                 InBucket(active[j], NamedBuckets(req, active[j])[k], Docs[d])
            /\ \A d \in DocIds :
                  (\A j \in 1..Len(filter) : ClauseHolds(filter[j], Docs[d]))
                    <=> \A i \in 1..Len(Families) :
                           HasNamed(Families[i]) =>
                              \E k \in 1..Len(NamedBuckets(req, Families[i])) :
                                 InBucket(Families[i], NamedBuckets(req, Families[i])[k], Docs[d])
            /\ req["players"] = ArrParam(<<Players2, Players4>>) =>
                  filter[Len(filter)] =
                     [bool |-> "should",
                      of |-> << <<Lte("min_players", 2), Gte("max_players", 2)>>,
                                <<Lte("min_players", 4), Gte("max_players", 4)>> >>]

\* players ["2", "4"] and an age bucket compiled to two clauses that some
\* document passes and some document fails
C7_Witness ==
    /\ body.compiled
    /\ req["players"] = ArrParam(<<Players2, Players4>>)
    /\ req["age"] = StrParam(Age5To10)
    /\ Len(body.q.filter) = 2
    /\ \E d \in DocIds : \A j \in 1..2 : ClauseHolds(body.q.filter[j], Docs[d])
    /\ \E d \in DocIds : ~ClauseHolds(body.q.filter[1], Docs[d])
                           /\ ClauseHolds(body.q.filter[2], Docs[d])

\* the field the sort key names, "" for relevance and for no known key
PrimaryField(q) ==
    IF Falsy(q["sort"]) THEN ""
    ELSE IF q["sort"].v[1] = SortByRank THEN "rank"
    ELSE IF q["sort"].v[1] = SortByRating THEN "rating"
    ELSE IF q["sort"].v[1] = SortByWeight THEN "weight"
    ELSE ""

\* C8: the compiled sort list is the primary field of the sort key (none for
\* relevance), then _score, then rank ascending exactly when no keywords are
\* given, then id, and id is always the last entry.
C8_SortOrder ==
    body.compiled =>
        LET sort == body.q.sort
            primary == IF PrimaryField(req) = "" THEN <<>> ELSE <<PrimaryField(req)>>
            tie == IF Falsy(req["keywords"]) THEN <<"rank">> ELSE <<>>
            n == Len(primary)
        IN  /\ [j \in 1..Len(sort) |-> sort[j].field]
                 = primary \o <<"_score">> \o tie \o <<"id">>
            /\ sort[Len(sort)].field = "id"
            /\ Falsy(req["keywords"]) => sort[n + 2].order = "asc"

\* a rating sort with keywords (three entries) or without (four) was compiled
C8_Witness ==
    /\ body.compiled
    /\ PrimaryField(req) = "rating"
    /\ req["keywords"] = StrParam(CatanStr)
    /\ Len(body.q.sort) = 3

\* C9: for a numeric sort key the list compiled with reverse=1 has, against
\* the list compiled with reverse=0 for the same request, the opposite
\* direction on the primary field and on every tie-breaker after it.
C9_ReverseFlipsAll ==
    (body.compiled /\ PrimaryField(req) # "" /\ req["reverse"] = StrParam(<<"1">>)) =>
        LET sort == body.q.sort
            plain == HandlerSort([req EXCEPT !["reverse"] = StrParam(<<"0">>)])
        IN  /\ Len(sort) = Len(plain)
            /\ \A j \in 1..Len(sort) :
                  /\ sort[j].field = plain[j].field
                  /\ Descending(sort[j]) # Descending(plain[j])

-----------------------------------------------------------------------------
(* The cursor alone: the sort tuple of a page's last hit, sent by search() *)
(* and read by createSearchAfterClause.                                    *)

MaxTuple == 3

\* the values a sort position holds: scores, ratings and weights are floats,
\* ranks and ids integers, a missing weight sorts as an infinity
SortValues ==
    {Int2Num(0), Int2Num(42), Norm(TRUE, 7, 0),
     Norm(FALSE, 75, 0 - 1), Norm(TRUE, 75, 0 - 1), Norm(FALSE, 12345, 0 - 3),
     Norm(FALSE, 1, 0 - 7), Norm(FALSE, 15, 0 - 8), Norm(FALSE, 1, 21),
     PlusInfinity, MinusInfinity}

\* the sort tuples of n positions, the last one the id
RECURSIVE TuplesOf(_)
TuplesOf(n) ==
    IF n = 1 THEN {<<Int2Num(i)>> : i \in {3, 120}}
    ELSE {<<x>> \o t : x \in SortValues, t \in TuplesOf(n - 1)}

\* the sort tuples of at most n positions; a sort list has _score and id at
\* least
CursorTuples(n) == UNION {TuplesOf(m) : m \in 2..n}

InitCursor ==
    /\ hitSort \in CursorTuples(MaxTuple) /\ tokens = NoTokens /\ search_after = NoCursor
    /\ StoreIdle /\ PagerIdle /\ ApiIdle /\ PagingIdle /\ TagsIdle

\* search() puts the tuple into the query string
SearchEncode ==
    /\ ~tokens.sent
    /\ tokens' = [sent |-> TRUE, v |-> EncodeSearchAfterKey(hitSort)]
    /\ UNCHANGED <<hitSort, search_after>>

\* the handler reads req.query["searchAfterKey"]
HandlerDecode ==
    /\ tokens.sent /\ ~search_after.defined
    /\ search_after' = createSearchAfterClause(QueryValue(tokens.v))
    /\ UNCHANGED <<hitSort, tokens>>

OthersCursor == UNCHANGED <<storeVars, pagerVars, apiVars, pagingVars, tagsVars>>

NextCursor ==
    \/ SearchEncode /\ OthersCursor
    \/ HandlerDecode /\ OthersCursor

SpecCursor == InitCursor /\ [][NextCursor]_vars

\* C10: the tokens search() writes for a hit's sort tuple, decoded by
\* createSearchAfterClause, give back the same value at every position
\* before the last, whatever the sign and the string form of the number.
C10_CursorRoundTrip ==
    search_after.defined =>
        /\ Len(search_after.key) = Len(hitSort)
        /\ \A j \in 1..(Len(hitSort) - 1) : search_after.key[j] = hitSort[j]

-----------------------------------------------------------------------------
(* One client fetching the pages of one FilterSet in sequence, as          *)
(* loadGames does when nothing else happens in between.                    *)

MaxFetched == 23

InitPaging ==
    /\ pageFilters \in PagingFilters
    /\ pageCursor = <<>> /\ fetched = <<>> /\ pageDone = FALSE
    /\ StoreIdle /\ PagerIdle /\ ApiIdle /\ CursorIdle /\ TagsIdle

\* one call of loadGames from start to end: the page after pageCursor is
\* appended, the cursor is the sort tuple of its last hit, and there are no
\* more results once total is the number of games held
PageApply(results) ==
    /\ results.status = 200
    /\ fetched' = fetched \o HitIds(results.hits)
    /\ pageCursor' = IF Len(results.hits) # 0
                       THEN results.hits[Len(results.hits)].sort
                       ELSE <<>>
    /\ pageDone' = (Len(results.hits) = 0
                      \/ results.total = Len(fetched) + Len(results.hits))

FetchPage ==
    /\ ~pageDone /\ Len(fetched) <= MaxFetched
    /\ PageApply(search(pageFilters, pageCursor))
    /\ UNCHANGED pageFilters

OthersPaging == UNCHANGED <<storeVars, pagerVars, apiVars, cursorVars, tagsVars>>

NextPaging == FetchPage /\ OthersPaging

SpecPaging == InitPaging /\ [][NextPaging]_vars

\* every matching document of a FilterSet, in the order of its sort list
AllMatching(filters) ==
    HitIds(DbSearch([HandlerBody(ClientQuery(filters, <<>>)) EXCEPT !.size = NumDocs]).hits)

\* C2: pages fetched in sequence, each after the sort tuple of the previous
\* page's last hit, hold every matching document exactly once and in sort
\* order: none on two pages, none skipped.
C2_EveryDocumentOnce ==
    /\ \A i, j \in 1..Len(fetched) : fetched[i] = fetched[j] => i = j
    /\ fetched = SubSeq(AllMatching(pageFilters), 1, Len(fetched))
    /\ pageDone => fetched = AllMatching(pageFilters)

-----------------------------------------------------------------------------
(* The home page (Spec): responses that arrive after the FilterSet moved.  *)

\* C1: the response to a request whose FilterSet is no longer the selected
\* one is discarded: it changes none of games, searchAfterKey, moreResults.
C1_StaleResponseDiscarded ==
    [][\A call \in pending :
          (call.filters # selected /\ Respond(call))
            => UNCHANGED <<games, searchAfterKey, moreResults>>]_vars

\* C3: a request sent with a cursor uses a cursor from a page fetched with
\* the request's own FilterSet, and after a FilterSet change the cursor is
\* empty until the first page of the new FilterSet has been applied.
C3_CursorOfSameFilterSet ==
    /\ \A call \in pending : ~call.first => call.keyFrom = call.filters
    /\ (loaded /\ searchAfterKey.defined) => cursorOf = selected

-----------------------------------------------------------------------------
(* The handler (SpecQuery): what it makes of searchAfterKey.               *)

\* the token starts, after an optional sign, with a digit, or with "." and
\* a digit when it is read as a float
StartsNumber(item) ==
    LET u == Unsigned(item)
    IN  /\ u # <<>>
        /\ \/ u[1] \in DigitSet
           \/ Includes(item, <<".">>) /\ Len(u) > 1 /\ u[1] = "." /\ u[2] \in DigitSet

\* C11 (as stated): for every token sequence of length at least 1 the
\* compiled search_after holds a number at every position before the last
\* and the last token unchanged.
C11_AllButLastNumbers ==
    (body.compiled /\ req["searchAfterKey"].t \in {"str", "arr"}) =>
        LET arr == req["searchAfterKey"].v
            clause == body.q.search_after
        IN  /\ clause.defined
            /\ Len(clause.key) = Len(arr)
            /\ clause.key[Len(arr)] = StrVal(arr[Len(arr)])
            /\ \A j \in 1..(Len(arr) - 1) : clause.key[j].k = "num"

\* C11 (amended): for a searchAfterKey that is not empty, the compiled
\* search_after has one value per token; the last token is unchanged, a token
\* before the last that holds "Infinity" is unchanged too, and any other is
\* read by parseFloat or parseInt: a number when it starts with one, else NaN.
C11_DecodeTokens ==
    (body.compiled /\ Truthy(req["searchAfterKey"])) =>
        LET arr == req["searchAfterKey"].v
            clause == body.q.search_after
        IN  /\ clause.defined
            /\ Len(clause.key) = Len(arr)
            /\ clause.key[Len(arr)] = StrVal(arr[Len(arr)])
            /\ \A j \in 1..(Len(arr) - 1) :
                  IF Includes(arr[j], InfinityStr) THEN clause.key[j] = StrVal(arr[j])
                  ELSE IF StartsNumber(arr[j]) THEN clause.key[j].k = "num"
                  ELSE clause.key[j] = NaN

\* a cursor with an "Infinity" token, number tokens and its id was compiled
C11_Witness ==
    /\ body.compiled
    /\ req["searchAfterKey"] = ArrParam(<<InfinityStr, <<"0">>, <<"1", "2", "0">>, <<"2">>>>)
    /\ body.q.search_after.key
         = <<PlusInfinity, Int2Num(0), Int2Num(120), StrVal(<<"2">>)>>

\* the first page of a compiled query: the first PageSize documents of its
\* result, in the order of its sort list
FirstPage(q) ==
    LET all == DbSearch([size |-> NumDocs, search_after |-> NoSearchAfter,
                         sort |-> q.sort, must |-> q.must,
                         should |-> q.should, filter |-> q.filter]).hits
    IN  SubSeq(all, 1, Min(PageSize, Len(all)))

\* C12: a request whose searchAfterKey is absent or the empty string is
\* compiled without search_after and is answered 200 with the first page;
\* and the request search() sends for a FilterSet when it is given no cursor
\* carries no searchAfterKey.
C12_NoCursorFirstPage ==
    /\ (body.compiled /\ req["searchAfterKey"] \in {NoParam, StrParam(<<>>)}) =>
            /\ ~body.q.search_after.defined
            /\ res # NoResponse =>
                    /\ res.status = 200
                    /\ res.hits = FirstPage(body.q)
    /\ \A f \in PagingFilters :
            req = ClientQuery(f, <<>>) => req["searchAfterKey"] = NoParam

C12_Witness ==
    /\ req["searchAfterKey"] = StrParam(<<>>)
    /\ body.compiled /\ ~body.q.search_after.defined
    /\ res.status = 200 /\ Len(res.hits) = PageSize

\* a cursor that is not one the handler could have handed out for this
\* request: a token count other than the number of sort entries, or a token
\* at a numeric position that is no number
Malformed(arr, sort) ==
    \/ Len(arr) # Len(sort)
    \/ \E j \in 1..(Len(arr) - 1) :
            ~Includes(arr[j], InfinityStr) /\ ~StartsNumber(arr[j])

\* C13: a malformed searchAfterKey is treated as no cursor: the query is
\* compiled without search_after and the answer is 200 with the first page.
C13_MalformedIsNoCursor ==
    (/\ body.compiled
     /\ req["searchAfterKey"].t \in {"str", "arr"}
     /\ req["searchAfterKey"] # StrParam(<<>>)
     /\ Malformed(req["searchAfterKey"].v, body.q.sort)) =>
        /\ ~body.q.search_after.defined
        /\ res # NoResponse =>
                /\ res.status = 200
                /\ res.hits = FirstPage(body.q)

-----------------------------------------------------------------------------
(* The home page while the FilterSet stays as the URL gave it: the page is *)
(* opened, the user scrolls, requests are answered or fail.                *)

ScrollUrls ==
    {EmptyQuery,
     One("keywords", StrParam(CatanStr)),
     One("keywords", StrParam(ZzzStr)),
     One("sort", StrParam(SortByRating)),
     One("sort", StrParam(SortByRank)),
     One("reverse", StrParam(<<"1">>)),
     One("rank", StrParam(RankTop500)),
     One("players", ArrParam(<<Players2, Players4>>))}

InitScroll == StoreInit(ScrollUrls) /\ PagerInit /\ ApiIdle /\ CursorIdle /\ PagingIdle
    /\ TagsIdle

NextScroll ==
    \/ Mount /\ Others
    \/ LoadMore /\ Others
    \/ \E call \in pending : Respond(call) /\ Others
    \/ \E call \in pending : Fail(call) /\ Others
    \/ \E call \in pending : ShowLoader(call) /\ Others

SpecScroll == InitScroll /\ [][NextScroll]_vars

-----------------------------------------------------------------------------
(* The same with every request answered with a result body, the user      *)
(* scrolling on while InfiniteScroll has more to ask for, and no answer    *)
(* held back forever.                                                      *)

AnsweredUrls == ScrollUrls \cup {One("keywords", StrParam(DiceStr))}

InitAnswered == StoreInit(AnsweredUrls) /\ PagerInit /\ ApiIdle /\ CursorIdle /\ PagingIdle
    /\ TagsIdle

NextAnswered ==
    \/ Mount /\ Others
    \/ LoadMore /\ Others
    \/ \E call \in pending : Respond(call) /\ Others
    \/ \E call \in pending : ShowLoader(call) /\ Others

\* an awaited search() returns: the step that takes its call from pending
Answered == \E call \in pending : call.awaiting /\ pending' = pending \ {call}

SpecAnswered ==
    /\ InitAnswered /\ [][NextAnswered]_vars
    /\ WF_vars(Mount /\ Others)
    /\ WF_vars(LoadMore /\ Others)
    /\ WF_pending(Answered)

-----------------------------------------------------------------------------
(* The pager: cursor, accumulation, stopping, requests in flight.          *)

\* the sort tuple the engine returned with the hit that a page ends with
LastSort(hits) == hits[Len(hits)].sort

\* C14: when a response is applied, searchAfterKey becomes the sort tuple of
\* the last hit of the page if the page has a hit, and undefined if it has
\* none.
C14_CursorIsLastHit ==
    [][\A call \in pending :
          (pending' = pending \ {call} /\ Respond(call)) =>
              LET hits == search(call.filters, call.key).hits
              IN  IF hits # <<>>
                  THEN /\ searchAfterKey' = Cursor(LastSort(hits))
                       /\ games'[Len(games')] = hits[Len(hits)].id
                  ELSE searchAfterKey' = NoCursor]_vars

C14_Witness ==
    /\ cursorOf # NoFilters /\ pending = {}
    /\ searchAfterKey.defined /\ Len(games) > PageSize

\* C15: while the FilterSet stays the same, an applied response never leaves
\* fewer games than the response applied before it left, and never more
\* than the total.value it carries.
C15_GamesGrowUpToTotal ==
    [][\A call \in pending :
          (pending' = pending \ {call} /\ Respond(call)) =>
              /\ cursorOf # NoFilters => Len(games') >= Len(games)
              /\ Len(games') <= search(call.filters, call.key).total]_vars

\* the pager has stopped: InfiniteScroll has no more to ask for and no
\* request is in flight
Stopped == ~moreResults /\ pending = {}

\* C16: with the FilterSet unchanged and every request answered, repeated
\* loadMore calls bring the pager to a state where moreResults is false and
\* no further request is sent.
C16_PagingTerminates == <>[]Stopped

\* C17: when an applied page has no hit the pager stops: moreResults becomes
\* false and the cursor is gone, so that no further request is sent, also
\* when total.value is not the number of games held.
C17_EmptyPageStops ==
    [][\A call \in pending :
          (/\ pending' = pending \ {call}
           /\ Respond(call)
           /\ search(call.filters, call.key).hits = <<>>) =>
              ~moreResults' /\ ~searchAfterKey'.defined]_vars

\* C18: loadMore sends a request only when none is in flight, a cursor is
\* held and the pager is not exhausted; otherwise it sends nothing and
\* changes nothing.
C18_LoadMoreGuarded ==
    [][LoadMore => (pending = {} /\ searchAfterKey.defined /\ moreResults)]_vars

\* the calls of loadGames whose search() has not returned
InFlight == {call \in pending : call.awaiting}

\* C19: at most one search request of the pager is outstanding at any
\* time; a FilterSet change leaves none of the requests sent before it.
C19_OneRequestOutstanding ==
    /\ Cardinality(InFlight) <= 1
    /\ \A call \in InFlight : call.first => call.filters = selected

\* C20: a request that failed changes nothing afterwards: games,
\* searchAfterKey and moreResults keep their values when what is left of its
\* loadGames call ends, so that a later loadMore retries with the same
\* cursor.
C20_FailureKeepsState ==
    [][\A call \in pending :
          (~call.awaiting /\ call \notin pending') =>
              UNCHANGED <<games, searchAfterKey, moreResults>>]_vars

-----------------------------------------------------------------------------
(* The handler (SpecQuery): scenarios of the compiled query.               *)

\* a request for keywords "catan" with every other filter absent or at the
\* value search() sends for the default FilterSet, and no cursor
CatanRequest ==
    /\ req["keywords"] = StrParam(CatanStr)
    /\ \A key \in QueryKeys \ {"keywords"} :
          req[key] \in {NoParam, ClientQuery(DEFAULT_SEARCH_FILTERS, <<>>)[key]}

BoostedPrefix(query) ==
    [multi_match |-> query, type |-> "bool_prefix",
     fields |-> <<"name^10", "description">>, operator |-> "and"]

\* C23 as stated: for all-default filters and keywords "catan" the query has
\* one must clause, no filter clause and the sort list [score, rank asc, id asc].
C23_CatanSortWithRank ==
    (body.compiled /\ CatanRequest) =>
        /\ body.q.must = <<BoostedPrefix(CatanStr)>>
        /\ body.q.filter = <<>>
        /\ body.q.sort = <<SortEntry("_score", "", ""), SortEntry("rank", "asc", ""),
                           SortEntry("id", "asc", "")>>

\* C23 amended: for all-default filters and keywords "catan" the query has
\* one must clause (the boosted prefix match on "catan"), no filter clause
\* and the sort list [score, id asc]: with keywords there is no rank entry.
C23_CatanQuery ==
    (body.compiled /\ CatanRequest) =>
        /\ body.q.must = <<BoostedPrefix(CatanStr)>>
        /\ body.q.filter = <<>>
        /\ body.q.sort = <<SortEntry("_score", "", ""), SortEntry("id", "asc", "")>>

C23_Witness ==
    /\ body.compiled
    /\ req = ClientQuery([DEFAULT_SEARCH_FILTERS EXCEPT !["keywords"] = CatanStr], <<>>)
    /\ Len(body.q.must) = 1 /\ Len(body.q.sort) = 2

\* a token that writes an integer id in decimal digits
IsIdToken(item) == item # <<>> /\ \A p \in 1..Len(item) : item[p] \in DigitSet

\* the should clauses the claim expects of one tag parameter
TagClauses(path, params) ==
    LET ids == SelectSeq(AsArray(params), IsIdToken)
    IN  [j \in 1..Len(ids) |-> [term |-> path, id |-> ParseInt(ids[j])]]

\* the request without its tag selections
Untagged(q) == [q EXCEPT !["mechanics"] = NoParam, !["themes"] = NoParam]

\* C24: the query has exactly one should clause per integer id of mechanics
\* and of themes (a term match on mechanics.id, categories.id); the tags add
\* nothing to must or filter and exclude no document: the request matches
\* the documents it matches without its tags.
C24_TagsExcludeNothing ==
    body.compiled =>
        /\ body.q.should = TagClauses("mechanics", req["mechanics"])
                              \o TagClauses("categories", req["themes"])
        /\ body.q.must = HandlerBody(Untagged(req)).must
        /\ body.q.filter = HandlerBody(Untagged(req)).filter
        /\ res.status = 200 => res.total = HandlerResponse(Untagged(req)).total

\* the request with every bucket value taken out that names no bucket of
\* its family, and the family's parameter taken out when none is left
Cleaned(q) ==
    [key \in QueryKeys |->
        IF \E f \in 1..Len(Families) : Families[f][1] = key /\ Truthy(q[key])
        THEN LET fam == Families[CHOOSE f \in 1..Len(Families) : Families[f][1] = key]
             IN  IF NamedBuckets(q, fam) = <<>> THEN NoParam
                 ELSE ArrParam(NamedBuckets(q, fam))
        ELSE q[key]]

\* the families of a request that have a value naming one of their buckets
NamedFamilies(q) ==
    {f \in 1..Len(Families) : Truthy(q[Families[f][1]]) /\ NamedBuckets(q, Families[f]) # <<>>}

\* C25: bucket values that name no bucket of their family are dropped: the
\* query has one filter clause per family with a known value and none for a
\* family whose values are all unknown, its filter list and its answer are
\* those of the request without the unknown values, and without a cursor
\* the answer is 200.
C25_UnknownBucketsDropped ==
    body.compiled =>
        /\ Len(body.q.filter) = Cardinality(NamedFamilies(req))
        /\ body.q.filter = HandlerBody(Cleaned(req)).filter
        /\ res # NoResponse =>
                /\ res = HandlerResponse(Cleaned(req))
                /\ Falsy(req["searchAfterKey"]) => res.status = 200

\* a players parameter with an unknown and a known value was answered, and
\* an age parameter with an unknown value only
C25_Witness ==
    /\ req["players"] = ArrParam(<<BogusStr, Players5Plus>>)
    /\ req["age"] = StrParam(BogusStr)
    /\ body.compiled /\ Len(body.q.filter) = 1
    /\ res.status = 200 /\ res.total > 0

\* the fields of the compiled sort list, in order
SortFields(q) == [j \in 1..Len(q.sort) |-> q.sort[j].field]

NoFieldTwice(fields) == \A i, j \in 1..Len(fields) : fields[i] = fields[j] => i = j

\* C28 as stated: no document field appears more than once in the compiled
\* sort list.
C28_NoFieldTwice == body.compiled => NoFieldTwice(SortFields(body.q))

\* C28 amended: no field appears more than once in the compiled sort list,
\* except rank when the sort key is rank and no keywords are given: then the
\* list is rank, _score, rank, id.
C28_OnlyRankTwice ==
    body.compiled =>
        IF PrimaryField(req) = "rank" /\ Falsy(req["keywords"])
        THEN SortFields(body.q) = <<"rank", "_score", "rank", "id">>
        ELSE NoFieldTwice(SortFields(body.q))

C28_Witness ==
    /\ body.compiled
    /\ req["sort"] = StrParam(SortByRank) /\ req["reverse"] = StrParam(<<"1">>)
    /\ body.q.sort[1] = SortEntry("rank", "desc", "")
    /\ body.q.sort[3] = SortEntry("rank", "asc", "")

-----------------------------------------------------------------------------
(* The store (SpecFilters): reset, and updates that change nothing.        *)

\* C29: after the reset reducer every field of selected equals
\* DEFAULT_SEARCH_FILTERS, the query string written to the URL is empty and
\* loaded is unchanged.
C29_ResetToDefaults ==
    [][ReducerReset =>
          /\ selected' = DEFAULT_SEARCH_FILTERS
          /\ url' = EmptyQuery
          /\ loaded' = loaded]_vars

-----------------------------------------------------------------------------
(* The home page with the menu in use: the filters are loaded and updated, *)
(* and the requests are answered.                                          *)

NextMenu ==
    \/ Mount /\ Others
    \/ \E payload \in PagerPayloads : Update(payload) /\ Others
    \/ \E call \in pending : Respond(call) /\ Others
    \/ \E call \in pending : ShowLoader(call) /\ Others

SpecMenu == Init /\ [][NextMenu]_vars

\* every field of the payload has the value selected holds: equal scalars,
\* or arrays that are both empty
SameValues(state, payload) ==
    \A key \in DOMAIN payload :
        /\ key \in DOMAIN state
        /\ IF IsArrayKey(key) THEN state[key] = <<>> /\ payload[key] = <<>>
           ELSE state[key] = payload[key]

\* C30: an update whose payload holds the current values leaves selected
\* and loaded as they are and starts no search request.
C30_SameValuesNoRequest ==
    [][\A payload \in PagerPayloads :
          (SameValues(selected, payload) /\ Update(payload)) =>
              /\ selected' = selected /\ loaded' = loaded
              /\ pending' = pending]_vars

\* a page is shown for keywords "catan", nothing is in flight, and the menu
\* can dispatch the same keywords and the same empty players again
C30_Witness ==
    /\ loaded /\ pending = {} /\ games # <<>>
    /\ SameValues(selected, One("keywords", CatanStr))
    /\ SameValues(selected, One("players", <<>>))
    /\ diff(selected, One("players", <<>>)) = selected
    /\ ~Changed(selected, One("keywords", CatanStr))

\* C27: once a response for the current FilterSet has been applied, the
\* loader timer of a first-page request for another FilterSet, which is an
\* earlier request, does not empty games.
C27_StaleTimerKeepsGames ==
    [][\A call \in pending :
          (/\ call.first /\ call.filters # selected
           /\ cursorOf = selected
           /\ ShowLoader(call)) => games' = games]_vars

-----------------------------------------------------------------------------
(* /api/tags: the walk over the composite aggregation of each facet, the   *)
(* response, and the fetchTags thunk with the slice "tags".                *)

MaxTags == 21
TagPageSize == 10

Mechanics == "mechanics"
Themes == "themes"

\* path() of loadPage: the nested path of a tag type
path(type) == IF type = Mechanics THEN "mechanics" ELSE "categories"

\* the order of keyword values: by character, a shorter prefix first
Alphabet == <<"a", "b">>
CodeOf(c) == CHOOSE i \in 1..Len(Alphabet) : Alphabet[i] = c
RECURSIVE KeywordBefore(_, _)
KeywordBefore(a, b) ==
    IF b = <<>> THEN FALSE
    ELSE IF a = <<>> THEN TRUE
    ELSE IF Head(a) # Head(b) THEN CodeOf(Head(a)) < CodeOf(Head(b))
    ELSE KeywordBefore(Tail(a), Tail(b))

\* the order of composite keys: by the sources in turn, id and then name
KeyBefore(a, b) ==
    \/ a.id < b.id
    \/ a.id = b.id /\ KeywordBefore(a.name, b.name)

\* the first n keys of a set in key order
RECURSIVE FirstKeys(_, _)
FirstKeysFrom(k, keys, n) == <<k>> \o FirstKeys(keys \ {k}, n - 1)
FirstKeys(keys, n) ==
    IF n = 0 \/ keys = {} THEN <<>>
    ELSE FirstKeysFrom(CHOOSE k \in keys : \A q \in keys \ {k} : KeyBefore(k, q), keys, n)

\* the composite aggregation tag_distinct: up to size buckets after the
\* given key, and the key of the last of them
Buckets(keys) ==
    [buckets |-> keys,
     after_key |-> IF keys = <<>> THEN NoAfterKey
                   ELSE [defined |-> TRUE, key |-> keys[Len(keys)]]]

\* loadPage: one request for the buckets of a tag type after afterKey; an
\* afterKey of undefined is left out of the request body
loadPage(type, afterKey) ==
    Buckets(FirstKeys({k \in tagIndex[path(type)] :
                          afterKey.defined => KeyBefore(afterKey.key, k)},
                      TagPageSize))

\* the loop of loadTags going on only after a full page
WalkContinuesFullPage(results) == Len(results.buckets) = TagPageSize

\* the condition of the loop of loadTags
WalkContinues(results) == Len(results.buckets) # 0

\* the body of the response
TagsBody(mechanics, themes) == [mechanics |-> mechanics, themes |-> themes]

\* one await of loadTags returns with a page.  With buckets, they are pushed
\* and the next page is asked for; without, loadTags returns and the handler
\* goes on to the themes or sends the response
LoadPageApply(type, results) ==
    IF WalkContinues(results)
    THEN /\ walk' = [walk EXCEPT !.tags = @ \o results.buckets,
                                 !.after = results.after_key,
                                 !.pages[type] = @ + 1]
         /\ UNCHANGED tagsRes
    ELSE IF type = Mechanics
    THEN /\ walk' = [walk EXCEPT !.phase = Themes, !.mechanics = walk.tags,
                                 !.tags = <<>>, !.after = NoAfterKey,
                                 !.returned = @ \cup {type},
                                 !.pages[type] = @ + 1]
         /\ UNCHANGED tagsRes
    ELSE /\ walk' = [walk EXCEPT !.phase = "sent",
                                 !.returned = @ \cup {type},
                                 !.pages[type] = @ + 1]
         /\ tagsRes' = [status |-> 200, json |-> TRUE,
                        body |-> TagsBody(walk.mechanics, walk.tags)]

LoadPageReturns ==
    /\ walk.phase \in {Mechanics, Themes}
    /\ LoadPageApply(walk.phase, loadPage(walk.phase, walk.after))
    /\ UNCHANGED <<tagIndex, tagsThunk, tagStore>>

\* a handler that answers a failed page with the tags it has
LoadPageFailsPartial ==
    /\ walk.phase \in {Mechanics, Themes}
    /\ walk' = [walk EXCEPT !.phase = "failed"]
    /\ tagsRes' = [status |-> 200, json |-> TRUE,
                   body |-> IF walk.phase = Mechanics
                            THEN TagsBody(walk.tags, <<>>)
                            ELSE TagsBody(walk.mechanics, walk.tags)]
    /\ UNCHANGED <<tagIndex, tagsThunk, tagStore>>

\* db.search rejects: loadPage, loadTags and the handler reject in turn, and
\* Next.js answers 500 with the text "Internal Server Error"
LoadPageFails ==
    /\ walk.phase \in {Mechanics, Themes}
    /\ walk' = [walk EXCEPT !.phase = "failed"]
    /\ tagsRes' = [status |-> 500, json |-> FALSE, body |-> NoTags]
    /\ UNCHANGED <<tagIndex, tagsThunk, tagStore>>

\* HomePage mounts and dispatches fetchTags: GET /api/tags reaches the
\* handler, which awaits the first page of the mechanics
FetchTags ==
    /\ tagsThunk = "none"
    /\ tagsThunk' = "pending"
    /\ walk' = [NoWalk EXCEPT !.phase = Mechanics]
    /\ UNCHANGED <<tagIndex, tagsRes, tagStore>>

\* fetchTags.fulfilled: response.json() gave the payload, whatever the status
Fulfilled ==
    /\ tagsThunk = "pending"
    /\ tagsRes.status # 0 /\ tagsRes.json
    /\ tagsThunk' = "fulfilled"
    /\ tagStore' = [themes |-> tagsRes.body.themes,
                    mechanics |-> tagsRes.body.mechanics, loaded |-> TRUE]
    /\ UNCHANGED <<tagIndex, walk, tagsRes>>

\* fetchTags.rejected: fetch rejects, or response.json() throws on a body
\* that is no JSON; the slice has no case for it
Rejected ==
    /\ tagsThunk = "pending"
    /\ tagsRes.status # 0 => ~tagsRes.json
    /\ tagsThunk' = "rejected"
    /\ UNCHANGED <<tagIndex, walk, tagsRes, tagStore>>

\* the name an id has, and the other name it has in some documents
NameOf(id) == <<Alphabet[1 + (id % 2)]>>
OtherNameOf(id) == <<Alphabet[2 - (id % 2)]>>

\* the pairs of n tags; with renamed, tag 1 has two names
TagPairs(n, renamed) ==
    {Tag(id, NameOf(id)) : id \in 1..n}
        \cup (IF renamed /\ n > 0 THEN {Tag(1, OtherNameOf(1))} ELSE {})

InitTags ==
    /\ \E m \in 0..MaxTags, t \in 0..MaxTags, renamed \in BOOLEAN :
          tagIndex = [mechanics |-> TagPairs(m, renamed),
                      categories |-> TagPairs(t, FALSE)]
    /\ walk = NoWalk /\ tagsRes = NoTagsResponse
    /\ tagsThunk = "none" /\ tagStore = INITIAL_STATE
    /\ StoreIdle /\ PagerIdle /\ ApiIdle /\ CursorIdle /\ PagingIdle

OthersTags == UNCHANGED <<storeVars, pagerVars, apiVars, cursorVars, pagingVars>>

NextTags ==
    \/ FetchTags /\ OthersTags
    \/ LoadPageReturns /\ OthersTags
    \/ LoadPageFails /\ OthersTags
    \/ Fulfilled /\ OthersTags
    \/ Rejected /\ OthersTags

SpecTags == InitTags /\ [][NextTags]_vars

\* the list loadTags returned for a type
Returned(type) == IF type = Mechanics THEN walk.mechanics ELSE walk.tags

\* the elements of a list
Elements(list) == {list[i] : i \in 1..Len(list)}

\* C21: what loadTags(type) returns holds every distinct (id, name) pair
\* under the facet's path exactly once, whether there are none, fewer than
\* a page, exactly a page or more, and the walk ends with the first page
\* that has no buckets: it asks for one page more than the pages that hold
\* the pairs.
C21_WalkComplete ==
    \A type \in walk.returned :
        /\ Elements(Returned(type)) = tagIndex[path(type)]
        /\ Len(Returned(type)) = Cardinality(tagIndex[path(type)])
        /\ walk.pages[type] =
              (Cardinality(tagIndex[path(type)]) + TagPageSize - 1) \div TagPageSize + 1

\* both walks have returned: more than two pages of mechanics, exactly one
\* page of themes
C21_Witness ==
    /\ walk.returned = {Mechanics, Themes}
    /\ Len(walk.mechanics) > 2 * TagPageSize
    /\ Len(walk.tags) = TagPageSize
    /\ walk.pages = [mechanics |-> 4, themes |-> 2]

\* C22: when a page request of the walk has failed, no 200 response is sent
\* and the slice keeps its initial state: not loaded, no mechanics, no themes.
C22_FailureSendsNoList ==
    walk.phase = "failed" =>
        /\ tagsRes.status # 200
        /\ ~tagStore.loaded /\ tagStore.mechanics = <<>> /\ tagStore.themes = <<>>

\* the second page of the themes failed after the mechanics and ten themes
\* were read, and the thunk has ended
C22_Witness ==
    /\ walk.phase = "failed"
    /\ walk.mechanics # <<>> /\ Len(walk.tags) = TagPageSize
    /\ tagsThunk = "rejected"
    /\ tagStore = INITIAL_STATE

\* no id twice in a list of tags
OneTagPerId(list) ==
    \A i, j \in 1..Len(list) : list[i].id = list[j].id => i = j

\* C26: each list of a 200 response of /api/tags holds at most one Tag per id.
C26_OneTagPerId ==
    tagsRes.status = 200 =>
        OneTagPerId(tagsRes.body.mechanics) /\ OneTagPerId(tagsRes.body.themes)

====
